---- MODULE Spec2Model ----
(***************************************************************************)
(* timetraveller: the concurrent fetch / retry / aggregate pipeline.       *)
(*   worker        (src/unnamed/part_000)                                  *)
(*   fetchURLData  (src/unnamed/part_001)                                  *)
(*   main          (src/unnamed/part_004)                                  *)
(* Spec      : main as written (3 retries), N workers, a coarse upstream.  *)
(* SpecFetch : one worker and one job, every retry budget from -1 up, and  *)
(*             every kind of upstream reply.                               *)
(* SpecDecode: one worker and one job, one retry, every response body.     *)
(***************************************************************************)
EXTENDS Integers, Sequences, FiniteSets, TLC

VARIABLES
    flags,              \* the parsed command line and the worker parameters
    jobs,               \* chan string: [buf, closed]
    resultsChan,        \* chan ProcessResult: [buf, closed]
    wg,                 \* sync.WaitGroup counter
    workers,            \* worker goroutines: locals of worker and fetchURLData
    mainPc,             \* position of main
    sent,               \* number of urlsToCheck already sent on jobs
    closerPc,           \* position of the goroutine that closes resultsChan
    foundSnapshotURLs,  \* main's accumulated slice
    stdout,             \* lines printed by main, in order
    fileWrites,         \* calls of writeUrlsToFile: the slices written
    panicked,           \* a send on a closed channel happened
    taken,              \* history: values received from jobs, in order
    observed            \* history: results received by main, in order

vars == <<flags, jobs, resultsChan, wg, workers, mainPc, sent, closerPc,
          foundSnapshotURLs, stdout, fileWrites, panicked, taken, observed>>

----------------------------------------------------------------------------
(* Bounds of the model *)

MaxWorkers == 2
MaxJobs == 2
MaxRetries == 3
MaxData == 2

(* Program constants *)

MainRetryAttempts == 3
MainRetryDelayMs == 5000
StatusOK == 200
StatusTooManyRequests == 429

URLs == {"a.com", "b.com"}

RECURSIVE SeqsUpTo(_, _)
SeqsUpTo(S, n) ==
    IF n = 0 THEN {<<>>}
    ELSE LET shorter == SeqsUpTo(S, n - 1)
         IN  shorter \cup {Append(s, e) : s \in {t \in shorter : Len(t) = n - 1}, e \in S}

----------------------------------------------------------------------------
(* Upstream replies.  A reply is what client.Do and io.ReadAll give back:  *)
(* nil = TRUE is (nil, err), a transport failure; otherwise a response     *)
(* with its status code, whether reading the body fails, whether the body  *)
(* text contains the rate-limit message, and the body as JSON text.        *)

Str(s) == [isStr |-> TRUE, v |-> s]
Num(s) == [isStr |-> FALSE, v |-> s]

Row(fs) == [t |-> "row", f |-> fs]
NullElem == [t |-> "null", f |-> <<>>]
ScalarElem == [t |-> "scalar", f |-> <<>>]

HeaderRow == Row(<<Str("urlkey"), Str("timestamp"), Str("original")>>)
EmptyRow == Row(<<>>)
Data1 == Row(<<Str("com,a)/"), Str("2001"), Str("http://a.com/")>>)
Data2 == Row(<<Str("com,a)/"), Str("2002"), Str("http://a.com/x")>>)
ShortRow == Row(<<Str("com,a)/"), Str("2003")>>)
NumTsRow == Row(<<Str("com,a)/"), Num("2004"), Str("http://a.com/y")>>)
NumOrigRow == Row(<<Str("com,a)/"), Str("2005"), Num("7")>>)

FirstElems == {HeaderRow, EmptyRow, NullElem, ScalarElem}
DataElems == {Data1, Data2, ShortRow, NumTsRow, NumOrigRow, NullElem, ScalarElem}

Text(kind) == [kind |-> kind, elems |-> <<>>]
Array(es) == [kind |-> "array", elems |-> es]

\* "empty": no bytes (or white space only); "invalid": not JSON syntax;
\* "scalar": a JSON value that is no array and not null; "null": null.
Bodies ==
    {Text("empty"), Text("invalid"), Text("scalar"), Text("null"), Array(<<>>)}
    \cup {Array(<<h>> \o ds) : h \in FirstElems, ds \in SeqsUpTo(DataElems, MaxData)}

Reply(code, readErr, marker, body) ==
    [nil |-> FALSE, StatusCode |-> code, readErr |-> readErr, marker |-> marker,
     body |-> body]
NilResp ==
    [nil |-> TRUE, StatusCode |-> 0, readErr |-> FALSE, marker |-> FALSE,
     body |-> Text("empty")]

Codes == {200, 404, 429, 499, 500, 599, 600}

FoundBody == Array(<<HeaderRow, Data1, Data2>>)

FetchBodies ==
    {Text("empty"), Text("invalid"), Array(<<>>), Array(<<HeaderRow>>), FoundBody,
     Array(<<HeaderRow, ScalarElem>>)}

Replies ==
    {NilResp}
    \cup {Reply(c, TRUE, FALSE, Text("invalid")) : c \in {200, 429, 500}}
    \cup {Reply(c, FALSE, m, Text("invalid")) : c \in Codes \ {200}, m \in BOOLEAN}
    \cup {Reply(200, FALSE, TRUE, b) : b \in {Text("invalid"), FoundBody}}
    \cup {Reply(200, FALSE, FALSE, b) : b \in FetchBodies}

PoolReplies ==
    {NilResp,
     Reply(200, FALSE, FALSE, FoundBody),
     Reply(200, FALSE, FALSE, Array(<<HeaderRow>>))}

----------------------------------------------------------------------------
(* ProcessResult and error values *)

NoError == [msg |-> "nil", cause |-> "nil", retries |-> 0, code |-> 0]
Err(msg, cause, retries, code) ==
    [msg |-> msg, cause |-> cause, retries |-> retries, code |-> code]

ProcessResult(url) ==
    [URL |-> url, Status |-> "", SnapshotCount |-> 0, OldestURL |-> "",
     Error |-> NoError]

ErrorResult(url, e) == [ProcessResult(url) EXCEPT !.Status = "error", !.Error = e]
NotFoundResult(url) == [ProcessResult(url) EXCEPT !.Status = "not found"]

----------------------------------------------------------------------------
(* fetchURLData *)

is429(resp) == resp.StatusCode = StatusTooManyRequests
\* variant: every status from 400 up counts as a server error
is5xxWide(resp) == resp.StatusCode >= 400 /\ resp.StatusCode < 600
is5xx(resp) == resp.StatusCode >= 500 /\ resp.StatusCode < 600
isRateLimitMessage(resp) == resp.marker

RECURSIVE Pow2(_)
Pow2(n) == IF n <= 0 THEN 1 ELSE 2 * Pow2(n - 1)

\* variant: the same delay before every retry
BackoffDelayConstant(retryDelayMs, attempt) == retryDelayMs

\* delay := retryDelayMs * 1<<(attempt-1), in milliseconds
BackoffDelay(retryDelayMs, attempt) == retryDelayMs * Pow2(attempt - 1)

\* json.NewDecoder(resp.Body).Decode(&cdxResponse) into [][]interface{}:
\* the error and the slice left in cdxResponse.  A syntax error is found
\* before anything is stored; an element that is no array is a type error
\* that leaves a nil row in its place and lets the decoding go on.
DecodeErr(body) ==
    CASE body.kind = "empty" -> "EOF"
      [] body.kind = "invalid" -> "syntax"
      [] body.kind = "scalar" -> "type"
      [] body.kind = "null" -> "nil"
      [] OTHER -> IF \E i \in 1..Len(body.elems) : body.elems[i].t = "scalar"
                  THEN "type" ELSE "nil"

DecodeRows(body) ==
    IF body.kind = "array"
    THEN [i \in 1..Len(body.elems) |-> body.elems[i].f]
    ELSE <<>>

\* variant: no link at all for an entry with too few fields
LinkOfNoSentinel(chosenEntry) ==
    IF Len(chosenEntry) > 2
    THEN IF chosenEntry[2].isStr /\ chosenEntry[3].isStr
         THEN "http://web.archive.org/web/" \o chosenEntry[2].v \o "/" \o chosenEntry[3].v
         ELSE "could not determine (error parsing snapshot data)"
    ELSE ""

\* lines 154-165: the link built from the chosen entry
LinkOf(chosenEntry) ==
    IF Len(chosenEntry) > 2
    THEN IF chosenEntry[2].isStr /\ chosenEntry[3].isStr
         THEN "http://web.archive.org/web/" \o chosenEntry[2].v \o "/" \o chosenEntry[3].v
         ELSE "could not determine (error parsing snapshot data)"
    ELSE "could not determine (not enough fields in snapshot data)"

\* variant: the first snapshot whatever the mode
ChosenEntryAlwaysFirst(snapshots, latest) == snapshots[1]

\* lines 144-152: the chosen entry of a non-empty snapshots slice
ChosenEntry(snapshots, latest) ==
    IF latest THEN snapshots[Len(snapshots)] ELSE snapshots[1]

\* variant: a chosen entry that cannot be read is reported as an error
SelectSnapshotStrict(url, snapshots, latest) ==
    IF Len(snapshots) > 0
    THEN LET e == ChosenEntry(snapshots, latest)
         IN  IF Len(e) > 2 /\ e[2].isStr /\ e[3].isStr
             THEN [ProcessResult(url) EXCEPT
                      !.Status = "found",
                      !.SnapshotCount = Len(snapshots),
                      !.OldestURL = LinkOf(e)]
             ELSE ErrorResult(url, Err("error parsing snapshot data", "entry", 0, 0))
    ELSE NotFoundResult(url)

\* lines 138-169: the result for the snapshots slice
SelectSnapshot(url, snapshots, latest) ==
    IF Len(snapshots) > 0
    THEN [ProcessResult(url) EXCEPT
             !.Status = "found",
             !.SnapshotCount = Len(snapshots),
             !.OldestURL = LinkOf(ChosenEntry(snapshots, latest))]
    ELSE NotFoundResult(url)

\* variant: row 0 is kept as a snapshot
InterpretRowsKeepHeader(url, cdxResponse, latest) ==
    IF Len(cdxResponse) > 1
    THEN SelectSnapshot(url, cdxResponse, latest)
    ELSE IF Len(cdxResponse) = 1 /\ Len(cdxResponse[1]) > 0
         THEN NotFoundResult(url)
         ELSE SelectSnapshot(url, <<>>, latest)

\* lines 128-136: rows of a decoded body; row 0 is dropped
InterpretRows(url, cdxResponse, latest) ==
    IF Len(cdxResponse) > 1
    THEN SelectSnapshot(url, Tail(cdxResponse), latest)
    ELSE IF Len(cdxResponse) = 1 /\ Len(cdxResponse[1]) > 0
         THEN NotFoundResult(url)
         ELSE SelectSnapshot(url, <<>>, latest)

\* lines 116-126: the decode step and its error classification
DecodeBody(url, body, latest) ==
    LET err == DecodeErr(body)
        cdxResponse == DecodeRows(body)
    IN  IF err # "nil"
        THEN IF err = "EOF" \/ Len(cdxResponse) = 0
             THEN NotFoundResult(url)
             ELSE ErrorResult(url, Err("error decoding JSON response", err, 0, 0))
        ELSE InterpretRows(url, cdxResponse, latest)

\* variant: a status other than 200 sets Error and leaves Status unset
AfterLoopNoStatus(url, resp, lastErr, latest) ==
    IF resp.nil
    THEN ErrorResult(url, Err("failed to get a response after all retries",
                              IF lastErr = "nil" THEN "unknown" ELSE lastErr, 0, 0))
    ELSE IF resp.StatusCode # StatusOK
         THEN [ProcessResult(url) EXCEPT
                  !.Error = Err("API request failed", "status", 0, resp.StatusCode)]
         ELSE DecodeBody(url, resp.body, latest)

\* variant: an error of an earlier attempt is reported after a good reply
AfterLoopLeaksLastErr(url, resp, lastErr, latest) ==
    IF resp.nil \/ lastErr # "nil"
    THEN ErrorResult(url, Err("failed to get a response after all retries",
                              IF lastErr = "nil" THEN "unknown" ELSE lastErr, 0, 0))
    ELSE IF resp.StatusCode # StatusOK
         THEN ErrorResult(url, Err("API request failed", "status", 0, resp.StatusCode))
         ELSE DecodeBody(url, resp.body, latest)

\* lines 97-170: what follows the attempt loop
AfterLoop(url, resp, lastErr, latest) ==
    IF resp.nil
    THEN ErrorResult(url, Err("failed to get a response after all retries",
                              IF lastErr = "nil" THEN "unknown" ELSE lastErr, 0, 0))
    ELSE IF resp.StatusCode # StatusOK
         THEN ErrorResult(url, Err("API request failed", "status", 0, resp.StatusCode))
         ELSE DecodeBody(url, resp.body, latest)

\* variant: a transport failure is not retried
AttemptNoNetworkRetry(url, reply, lastErr, attempt, retryAttempts) ==
    IF reply.nil
    THEN [ctl |-> "return", lastErr |-> "network",
          result |-> ErrorResult(url, Err("error fetching data after retries",
                                          "network", retryAttempts, 0))]
    ELSE IF reply.readErr
    THEN [ctl |-> "return", lastErr |-> lastErr,
          result |-> ErrorResult(url, Err("error reading response body", "read", 0, 0))]
    ELSE IF is429(reply) \/ is5xx(reply) \/ isRateLimitMessage(reply)
    THEN LET cause == IF is429(reply) \/ isRateLimitMessage(reply)
                      THEN "rate limiting" ELSE "server error"
         IN  IF attempt < retryAttempts
             THEN [ctl |-> "continue", lastErr |-> cause, result |-> ProcessResult(url)]
             ELSE [ctl |-> "return", lastErr |-> cause,
                   result |-> ErrorResult(url, Err("after retries", cause,
                                                   retryAttempts, reply.StatusCode))]
    ELSE [ctl |-> "break", lastErr |-> lastErr, result |-> ProcessResult(url)]

\* variant: the cause of the first failed attempt is kept to the end
AttemptKeepsFirstCause(url, reply, lastErr, attempt, retryAttempts) ==
    LET keep(cause) == IF lastErr = "nil" THEN cause ELSE lastErr
    IN  IF reply.nil
        THEN IF attempt < retryAttempts
             THEN [ctl |-> "continue", lastErr |-> keep("network"),
                   result |-> ProcessResult(url)]
             ELSE [ctl |-> "return", lastErr |-> keep("network"),
                   result |-> ErrorResult(url, Err("error fetching data after retries",
                                                   keep("network"), retryAttempts, 0))]
        ELSE IF reply.readErr
        THEN [ctl |-> "return", lastErr |-> lastErr,
              result |-> ErrorResult(url, Err("error reading response body", "read", 0, 0))]
        ELSE IF is429(reply) \/ is5xx(reply) \/ isRateLimitMessage(reply)
        THEN LET cause == keep(IF is429(reply) \/ isRateLimitMessage(reply)
                               THEN "rate limiting" ELSE "server error")
             IN  IF attempt < retryAttempts
                 THEN [ctl |-> "continue", lastErr |-> cause,
                       result |-> ProcessResult(url)]
                 ELSE [ctl |-> "return", lastErr |-> cause,
                       result |-> ErrorResult(url, Err("after retries", cause,
                                                       retryAttempts, reply.StatusCode))]
        ELSE [ctl |-> "break", lastErr |-> lastErr, result |-> ProcessResult(url)]

\* variant: a body that cannot be read is retried like a transport failure
AttemptRetriesReadFailure(url, reply, lastErr, attempt, retryAttempts) ==
    IF reply.nil \/ reply.readErr
    THEN IF attempt < retryAttempts
         THEN [ctl |-> "continue", lastErr |-> "network", result |-> ProcessResult(url)]
         ELSE [ctl |-> "return", lastErr |-> "network",
               result |-> ErrorResult(url, Err("error fetching data after retries",
                                               "network", retryAttempts, 0))]
    ELSE IF is429(reply) \/ is5xx(reply) \/ isRateLimitMessage(reply)
    THEN LET cause == IF is429(reply) \/ isRateLimitMessage(reply)
                      THEN "rate limiting" ELSE "server error"
         IN  IF attempt < retryAttempts
             THEN [ctl |-> "continue", lastErr |-> cause, result |-> ProcessResult(url)]
             ELSE [ctl |-> "return", lastErr |-> cause,
                   result |-> ErrorResult(url, Err("after retries", cause,
                                                   retryAttempts, reply.StatusCode))]
    ELSE [ctl |-> "break", lastErr |-> lastErr, result |-> ProcessResult(url)]

\* variant: a transport failure at the last attempt leaves the loop
AttemptNetworkFallsThrough(url, reply, lastErr, attempt, retryAttempts) ==
    IF reply.nil
    THEN IF attempt < retryAttempts
         THEN [ctl |-> "continue", lastErr |-> "network", result |-> ProcessResult(url)]
         ELSE [ctl |-> "break", lastErr |-> "network", result |-> ProcessResult(url)]
    ELSE IF reply.readErr
    THEN [ctl |-> "return", lastErr |-> lastErr,
          result |-> ErrorResult(url, Err("error reading response body", "read", 0, 0))]
    ELSE IF is429(reply) \/ is5xx(reply) \/ isRateLimitMessage(reply)
    THEN LET cause == IF is429(reply) \/ isRateLimitMessage(reply)
                      THEN "rate limiting" ELSE "server error"
         IN  IF attempt < retryAttempts
             THEN [ctl |-> "continue", lastErr |-> cause, result |-> ProcessResult(url)]
             ELSE [ctl |-> "return", lastErr |-> cause,
                   result |-> ErrorResult(url, Err("after retries", cause,
                                                   retryAttempts, reply.StatusCode))]
    ELSE [ctl |-> "break", lastErr |-> lastErr, result |-> ProcessResult(url)]

\* lines 49-95: one reply inside the attempt loop.  ctl is what the loop
\* does next: "continue", "return" (with result) or "break".
Attempt(url, reply, lastErr, attempt, retryAttempts) ==
    IF reply.nil
    THEN IF attempt < retryAttempts
         THEN [ctl |-> "continue", lastErr |-> "network", result |-> ProcessResult(url)]
         ELSE [ctl |-> "return", lastErr |-> "network",
               result |-> ErrorResult(url, Err("error fetching data after retries",
                                               "network", retryAttempts, 0))]
    ELSE IF reply.readErr
    THEN [ctl |-> "return", lastErr |-> lastErr,
          result |-> ErrorResult(url, Err("error reading response body", "read", 0, 0))]
    ELSE IF is429(reply) \/ is5xx(reply) \/ isRateLimitMessage(reply)
    THEN LET cause == IF is429(reply) \/ isRateLimitMessage(reply)
                      THEN "rate limiting" ELSE "server error"
         IN  IF attempt < retryAttempts
             THEN [ctl |-> "continue", lastErr |-> cause, result |-> ProcessResult(url)]
             ELSE [ctl |-> "return", lastErr |-> cause,
                   result |-> ErrorResult(url, Err("after retries", cause,
                                                   retryAttempts, reply.StatusCode))]
    ELSE [ctl |-> "break", lastErr |-> lastErr, result |-> ProcessResult(url)]

\* variant: the loop stops one attempt early
LoopConditionStrict(attempt, retryAttempts) == attempt < retryAttempts

\* line 35: the condition of the attempt loop
LoopCondition(attempt, retryAttempts) == attempt <= retryAttempts

\* history: what one reply looked like, without its body
Kind(reply) ==
    IF reply.nil THEN "transport"
    ELSE IF reply.readErr THEN "read failure"
    ELSE IF reply.StatusCode = StatusTooManyRequests THEN "429"
    ELSE IF reply.StatusCode >= 500 /\ reply.StatusCode < 600 THEN "5xx"
    ELSE IF reply.StatusCode = StatusOK
         THEN IF reply.marker THEN "200 marker" ELSE "200"
         ELSE IF reply.marker THEN "other marker" ELSE "other"

----------------------------------------------------------------------------
(* State *)

\* variant: channels that buffer one value per worker
CapPerWorker == flags.numWorkers

Cap == Len(flags.urlsToCheck)
Pool == 1..flags.numWorkers

Chan == [buf |-> <<>>, closed |-> FALSE]

\* a worker at "for targetURL := range urls", no call of fetchURLData active
IdleWorker ==
    [pc |-> "idle", targetURL |-> "", attempt |-> 0, delay |-> 0,
     resp |-> NilResp, lastErr |-> "nil", result |-> ProcessResult(""),
     calls |-> 0, sleeps |-> <<>>, seen |-> <<>>]

\* job lists up to the naming of the URLs: the first job is "a.com"
JobLists == {l \in SeqsUpTo(URLs, MaxJobs) : l # <<>> /\ l[1] = "a.com"}

Start(fl) ==
    /\ flags = fl
    /\ jobs = Chan
    /\ resultsChan = Chan
    /\ wg = fl.numWorkers
    /\ workers = [w \in 1..fl.numWorkers |-> IdleWorker]
    /\ mainPc = "send"
    /\ sent = 0
    /\ closerPc = "unborn"
    /\ foundSnapshotURLs = <<>>
    /\ stdout = <<>>
    /\ fileWrites = <<>>
    /\ panicked = FALSE
    /\ taken = <<>>
    /\ observed = <<>>

\* main as written: worker(..., *delayMsFlag, 3, 5000)
Init ==
    \E fl \in [urlsToCheck : JobLists, numWorkers : 1..MaxWorkers,
                delayMs : {0, 500}, latest : {FALSE}, noErr : {FALSE},
                outputFile : {""},
                retryAttempts : {MainRetryAttempts},
                retryDelayMs : {MainRetryDelayMs}] : Start(fl)

\* main as written, run with a politeness delay
InitFair ==
    \E fl \in [urlsToCheck : JobLists, numWorkers : 1..MaxWorkers,
                delayMs : {500}, latest : {FALSE}, noErr : {FALSE},
                outputFile : {""},
                retryAttempts : {MainRetryAttempts},
                retryDelayMs : {MainRetryDelayMs}] : Start(fl)

\* job lists in which consecutive jobs differ, so that the order of the
\* results shows in their URLs
AggJobLists == {l \in JobLists : \A i \in 2..Len(l) : l[i] # l[i - 1]}

\* main with -no-err and -o set or not
InitAgg ==
    \E fl \in [urlsToCheck : AggJobLists, numWorkers : 1..MaxWorkers,
                delayMs : {500}, latest : {FALSE}, noErr : BOOLEAN,
                outputFile : {"", "found.txt"},
                retryAttempts : {MainRetryAttempts},
                retryDelayMs : {MainRetryDelayMs}] : Start(fl)

\* fetchURLData for every retry budget: one worker, one job
InitFetch ==
    \E fl \in [urlsToCheck : {<<"a.com">>}, numWorkers : {1},
                delayMs : {0, 500}, latest : {FALSE}, noErr : {FALSE},
                outputFile : {""},
                retryAttempts : (-1)..MaxRetries,
                retryDelayMs : {MainRetryDelayMs}] : Start(fl)

\* fetchURLData for every response body: one worker, one job, one retry
InitDecode ==
    \E fl \in [urlsToCheck : {<<u>> : u \in URLs}, numWorkers : {1},
                delayMs : {0, 500}, latest : BOOLEAN, noErr : {FALSE},
                outputFile : {""},
                retryAttempts : {1},
                retryDelayMs : {MainRetryDelayMs}] : Start(fl)

----------------------------------------------------------------------------
(* main: lines 79-88 *)

SendJob ==
    /\ mainPc = "send"
    /\ sent < Len(flags.urlsToCheck)
    /\ Len(jobs.buf) < Cap
    /\ ~jobs.closed
    /\ jobs' = [jobs EXCEPT !.buf = Append(@, flags.urlsToCheck[sent + 1])]
    /\ sent' = sent + 1
    /\ UNCHANGED <<flags, resultsChan, wg, workers, mainPc, closerPc,
                   foundSnapshotURLs, stdout, fileWrites, panicked, taken, observed>>

\* close(jobs); go func() { wg.Wait(); close(resultsChan) }()
CloseJobs ==
    /\ mainPc = "send"
    /\ sent = Len(flags.urlsToCheck)
    /\ jobs' = [jobs EXCEPT !.closed = TRUE]
    /\ closerPc' = "wait"
    /\ mainPc' = "range"
    /\ UNCHANGED <<flags, resultsChan, wg, workers, sent,
                   foundSnapshotURLs, stdout, fileWrites, panicked, taken, observed>>

\* variant: resultsChan is closed without waiting for the workers
CloseResultsNoWait ==
    /\ closerPc = "wait"
    /\ resultsChan' = [resultsChan EXCEPT !.closed = TRUE]
    /\ closerPc' = "done"
    /\ UNCHANGED <<flags, jobs, wg, workers, mainPc, sent,
                   foundSnapshotURLs, stdout, fileWrites, panicked, taken, observed>>

\* variant: the closer waits for the jobs channel to drain, not for the workers
CloseResultsOnDrain ==
    /\ closerPc = "wait"
    /\ jobs.closed /\ jobs.buf = <<>>
    /\ resultsChan' = [resultsChan EXCEPT !.closed = TRUE]
    /\ closerPc' = "done"
    /\ UNCHANGED <<flags, jobs, wg, workers, mainPc, sent,
                   foundSnapshotURLs, stdout, fileWrites, panicked, taken, observed>>

\* wg.Wait() returns; close(resultsChan)
CloseResults ==
    /\ closerPc = "wait"
    /\ wg = 0
    /\ resultsChan' = [resultsChan EXCEPT !.closed = TRUE]
    /\ closerPc' = "done"
    /\ UNCHANGED <<flags, jobs, wg, workers, mainPc, sent,
                   foundSnapshotURLs, stdout, fileWrites, panicked, taken, observed>>

----------------------------------------------------------------------------
(* worker and the attempt loop of fetchURLData *)

\* variant: a worker also receives a job while its fetchURLData is backing off
TakeJobWhileSleeping(w) ==
    /\ w \in Pool
    /\ workers[w].pc \in {"idle", "sleeping"}
    /\ jobs.buf # <<>>
    /\ LET url == Head(jobs.buf)
       IN  /\ jobs' = [jobs EXCEPT !.buf = Tail(@)]
           /\ taken' = Append(taken, url)
           /\ workers' = [workers EXCEPT ![w] =
                 [IdleWorker EXCEPT !.pc = "inflight", !.targetURL = url,
                                    !.result = ProcessResult(url), !.calls = 1]]
    /\ UNCHANGED <<flags, resultsChan, wg, mainPc, sent, closerPc,
                   foundSnapshotURLs, stdout, fileWrites, panicked, observed>>

\* variant: the jobs channel hands out its newest value first
TakeJobNewestFirst(w) ==
    /\ w \in Pool
    /\ workers[w].pc = "idle"
    /\ jobs.buf # <<>>
    /\ LET url == jobs.buf[Len(jobs.buf)]
       IN  /\ jobs' = [jobs EXCEPT !.buf = SubSeq(@, 1, Len(@) - 1)]
           /\ taken' = Append(taken, url)
           /\ workers' = [workers EXCEPT ![w] =
                 [IdleWorker EXCEPT !.pc = "inflight", !.targetURL = url,
                                    !.result = ProcessResult(url), !.calls = 1]]
    /\ UNCHANGED <<flags, resultsChan, wg, mainPc, sent, closerPc,
                   foundSnapshotURLs, stdout, fileWrites, panicked, observed>>

\* "for targetURL := range urls" receives a value and fetchURLData starts:
\* with attempts allowed the first request is issued, otherwise the loop
\* body never runs and the code after the loop finds resp == nil.
TakeJob(w) ==
    /\ w \in Pool
    /\ workers[w].pc = "idle"
    /\ jobs.buf # <<>>
    /\ LET url == Head(jobs.buf)
       IN  /\ jobs' = [jobs EXCEPT !.buf = Tail(@)]
           /\ taken' = Append(taken, url)
           /\ workers' = [workers EXCEPT ![w] =
                 IF LoopCondition(0, flags.retryAttempts)
                 THEN [IdleWorker EXCEPT !.pc = "inflight", !.targetURL = url,
                                         !.result = ProcessResult(url), !.calls = 1]
                 ELSE [IdleWorker EXCEPT !.pc = "publish", !.targetURL = url,
                                         !.result = AfterLoop(url, NilResp, "nil",
                                                              flags.latest)]]
    /\ UNCHANGED <<flags, resultsChan, wg, mainPc, sent, closerPc,
                   foundSnapshotURLs, stdout, fileWrites, panicked, observed>>

\* variant: the worker returns without wg.Done()
ExitNoDone(w) ==
    /\ w \in Pool
    /\ workers[w].pc = "idle"
    /\ jobs.buf = <<>>
    /\ jobs.closed
    /\ workers' = [workers EXCEPT ![w].pc = "exited"]
    /\ UNCHANGED <<flags, jobs, resultsChan, wg, mainPc, sent, closerPc,
                   foundSnapshotURLs, stdout, fileWrites, panicked, taken, observed>>

\* the range over a closed and drained jobs channel ends: defer wg.Done()
Exit(w) ==
    /\ w \in Pool
    /\ workers[w].pc = "idle"
    /\ jobs.buf = <<>>
    /\ jobs.closed
    /\ workers' = [workers EXCEPT ![w].pc = "exited"]
    /\ wg' = wg - 1
    /\ UNCHANGED <<flags, jobs, resultsChan, mainPc, sent, closerPc,
                   foundSnapshotURLs, stdout, fileWrites, panicked, taken, observed>>

\* client.Do returns and the rest of the iteration runs: up to the sleep of
\* the next iteration, or up to the return of fetchURLData (from inside the
\* loop, or from the code after it when the loop is left)
Respond(w, replies) ==
    /\ w \in Pool
    /\ workers[w].pc = "inflight"
    /\ \E reply \in replies :
         LET me == workers[w]
             a == Attempt(me.targetURL, reply, me.lastErr, me.attempt,
                          flags.retryAttempts)
             heard == [me EXCEPT !.resp = reply, !.lastErr = a.lastErr,
                                 !.seen = Append(@, Kind(reply))]
         IN  workers' = [workers EXCEPT ![w] =
               CASE a.ctl = "continue"
                    /\ LoopCondition(me.attempt + 1, flags.retryAttempts) ->
                      [heard EXCEPT !.pc = "sleeping", !.attempt = @ + 1,
                                    !.delay = BackoffDelay(flags.retryDelayMs,
                                                           me.attempt + 1)]
                 [] a.ctl = "return" ->
                      [heard EXCEPT !.pc = "publish", !.result = a.result]
                 [] OTHER ->
                      [heard EXCEPT !.pc = "publish",
                                    !.result = AfterLoop(me.targetURL, reply,
                                                         a.lastErr, flags.latest)]]
    /\ UNCHANGED <<flags, jobs, resultsChan, wg, mainPc, sent, closerPc,
                   foundSnapshotURLs, stdout, fileWrites, panicked, taken, observed>>

\* time.Sleep(delay) returns and the request of this attempt is issued
Wake(w) ==
    /\ w \in Pool
    /\ workers[w].pc = "sleeping"
    /\ workers' = [workers EXCEPT ![w].pc = "inflight",
                                  ![w].calls = @ + 1,
                                  ![w].sleeps = Append(@, workers[w].delay)]
    /\ UNCHANGED <<flags, jobs, resultsChan, wg, mainPc, sent, closerPc,
                   foundSnapshotURLs, stdout, fileWrites, panicked, taken, observed>>

\* variant: a result with an error is not sent
PublishSkipsErrors(w) ==
    /\ w \in Pool
    /\ workers[w].pc = "publish"
    /\ resultsChan.closed \/ Len(resultsChan.buf) < Cap
    /\ IF resultsChan.closed
       THEN /\ panicked' = TRUE
            /\ workers' = [workers EXCEPT ![w] = [IdleWorker EXCEPT !.pc = "exited"]]
            /\ UNCHANGED resultsChan
       ELSE /\ resultsChan' =
                 IF workers[w].result.Status = "error" THEN resultsChan
                 ELSE [resultsChan EXCEPT !.buf = Append(@, workers[w].result)]
            /\ workers' = [workers EXCEPT ![w] =
                  [IdleWorker EXCEPT !.pc = IF flags.delayMs > 0 THEN "pause"
                                            ELSE "idle"]]
            /\ UNCHANGED panicked
    /\ UNCHANGED <<flags, jobs, wg, mainPc, sent, closerPc,
                   foundSnapshotURLs, stdout, fileWrites, taken, observed>>

\* variant: a worker returns after sending a result with an error
PublishStopsOnError(w) ==
    /\ w \in Pool
    /\ workers[w].pc = "publish"
    /\ ~resultsChan.closed
    /\ Len(resultsChan.buf) < Cap
    /\ resultsChan' = [resultsChan EXCEPT !.buf = Append(@, workers[w].result)]
    /\ IF workers[w].result.Status = "error"
       THEN /\ workers' = [workers EXCEPT ![w] = [IdleWorker EXCEPT !.pc = "exited"]]
            /\ wg' = wg - 1
       ELSE /\ workers' = [workers EXCEPT ![w] =
                  [IdleWorker EXCEPT !.pc = IF flags.delayMs > 0 THEN "pause"
                                            ELSE "idle"]]
            /\ wg' = wg
    /\ UNCHANGED <<flags, jobs, mainPc, sent, closerPc, panicked,
                   foundSnapshotURLs, stdout, fileWrites, taken, observed>>

\* variant: the worker never sleeps after the send
PublishNoPause(w) ==
    /\ w \in Pool
    /\ workers[w].pc = "publish"
    /\ resultsChan.closed \/ Len(resultsChan.buf) < Cap
    /\ IF resultsChan.closed
       THEN /\ panicked' = TRUE
            /\ workers' = [workers EXCEPT ![w] = [IdleWorker EXCEPT !.pc = "exited"]]
            /\ UNCHANGED resultsChan
       ELSE /\ resultsChan' = [resultsChan EXCEPT !.buf = Append(@, workers[w].result)]
            /\ workers' = [workers EXCEPT ![w] = IdleWorker]
            /\ UNCHANGED panicked
    /\ UNCHANGED <<flags, jobs, wg, mainPc, sent, closerPc,
                   foundSnapshotURLs, stdout, fileWrites, taken, observed>>

\* results <- fetchURLData(...); then the politeness delay, if any
Publish(w) ==
    /\ w \in Pool
    /\ workers[w].pc = "publish"
    /\ resultsChan.closed \/ Len(resultsChan.buf) < Cap
    /\ IF resultsChan.closed
       THEN /\ panicked' = TRUE
            /\ workers' = [workers EXCEPT ![w] = [IdleWorker EXCEPT !.pc = "exited"]]
            /\ UNCHANGED resultsChan
       ELSE /\ resultsChan' = [resultsChan EXCEPT !.buf = Append(@, workers[w].result)]
            /\ workers' = [workers EXCEPT ![w] =
                  [IdleWorker EXCEPT !.pc = IF flags.delayMs > 0 THEN "pause"
                                            ELSE "idle"]]
            /\ UNCHANGED panicked
    /\ UNCHANGED <<flags, jobs, wg, mainPc, sent, closerPc,
                   foundSnapshotURLs, stdout, fileWrites, taken, observed>>

\* time.Sleep(delayMs) returns
Resume(w) ==
    /\ w \in Pool
    /\ workers[w].pc = "pause"
    /\ workers' = [workers EXCEPT ![w].pc = "idle"]
    /\ UNCHANGED <<flags, jobs, resultsChan, wg, mainPc, sent, closerPc,
                   foundSnapshotURLs, stdout, fileWrites, panicked, taken, observed>>

----------------------------------------------------------------------------
(* main: lines 90-134 *)

\* lines 109-125: the line printed for a result
OutputLine(result) ==
    IF result.Error # NoError
    THEN [mark |-> "[!]", URL |-> result.URL, Snapshots |-> 0, link |-> "",
          err |-> result.Error]
    ELSE CASE result.Status = "found" ->
                [mark |-> "[+]", URL |-> result.URL,
                 Snapshots |-> result.SnapshotCount, link |-> result.OldestURL,
                 err |-> NoError]
           [] result.Status = "not found" ->
                [mark |-> "[-]", URL |-> result.URL, Snapshots |-> 0, link |-> "",
                 err |-> NoError]
           [] OTHER ->
                [mark |-> "[i]", URL |-> result.URL, Snapshots |-> 0, link |-> "",
                 err |-> NoError]

\* variant: -no-err skips errors only
FilteredOnlyErrors(result) ==
    flags.noErr /\ result.Error # NoError

\* variant: -no-err skips every result
FilteredAll(result) == flags.noErr

\* lines 94-101: the result is skipped by -no-err
Filtered(result) ==
    flags.noErr /\ (result.Error # NoError \/ result.Status = "not found")

\* one iteration of "for result := range resultsChan"
Consume ==
    /\ mainPc = "range"
    /\ resultsChan.buf # <<>>
    /\ LET result == Head(resultsChan.buf)
       IN  /\ resultsChan' = [resultsChan EXCEPT !.buf = Tail(@)]
           /\ observed' = Append(observed, result)
           /\ IF Filtered(result)
              THEN UNCHANGED <<stdout, foundSnapshotURLs>>
              ELSE /\ stdout' = Append(stdout, OutputLine(result))
                   /\ foundSnapshotURLs' =
                        IF result.Error = NoError /\ result.Status = "found"
                        THEN Append(foundSnapshotURLs, result.OldestURL)
                        ELSE foundSnapshotURLs
    /\ UNCHANGED <<flags, jobs, wg, workers, mainPc, sent, closerPc,
                   fileWrites, panicked, taken>>

\* variant: the range ends as soon as the channel is empty
FinishOnEmpty ==
    /\ mainPc = "range"
    /\ resultsChan.buf = <<>>
    /\ IF flags.outputFile # "" /\ Len(foundSnapshotURLs) > 0
       THEN /\ fileWrites' = Append(fileWrites, foundSnapshotURLs)
            /\ \E ok \in BOOLEAN : mainPc' = IF ok THEN "done" ELSE "fatal"
       ELSE /\ fileWrites' = fileWrites
            /\ mainPc' = "done"
    /\ UNCHANGED <<flags, jobs, resultsChan, wg, workers, sent, closerPc,
                   foundSnapshotURLs, stdout, panicked, taken, observed>>

\* variant: the file is written whenever -o is set, also with nothing found
FinishWritesEmpty ==
    /\ mainPc = "range"
    /\ resultsChan.buf = <<>>
    /\ resultsChan.closed
    /\ IF flags.outputFile # ""
       THEN /\ fileWrites' = Append(fileWrites, foundSnapshotURLs)
            /\ \E ok \in BOOLEAN : mainPc' = IF ok THEN "done" ELSE "fatal"
       ELSE /\ fileWrites' = fileWrites
            /\ mainPc' = "done"
    /\ UNCHANGED <<flags, jobs, resultsChan, wg, workers, sent, closerPc,
                   foundSnapshotURLs, stdout, panicked, taken, observed>>

\* the range ends on the closed, drained channel; lines 129-134:
\* writeUrlsToFile is called with the accumulated slice, and log.Fatalf ends
\* the process when it returns an error. The line printed after a successful
\* write is not a result line and is not kept in stdout.
Finish ==
    /\ mainPc = "range"
    /\ resultsChan.buf = <<>>
    /\ resultsChan.closed
    /\ IF flags.outputFile # "" /\ Len(foundSnapshotURLs) > 0
       THEN /\ fileWrites' = Append(fileWrites, foundSnapshotURLs)
            /\ \E ok \in BOOLEAN : mainPc' = IF ok THEN "done" ELSE "fatal"
       ELSE /\ fileWrites' = fileWrites
            /\ mainPc' = "done"
    /\ UNCHANGED <<flags, jobs, resultsChan, wg, workers, sent, closerPc,
                   foundSnapshotURLs, stdout, panicked, taken, observed>>

----------------------------------------------------------------------------
(* Specifications *)

Main == SendJob \/ CloseJobs \/ CloseResults \/ Consume \/ Finish

Next ==
    \/ Main
    \/ \E w \in 1..MaxWorkers :
          \/ TakeJob(w) \/ Exit(w) \/ Respond(w, PoolReplies)
          \/ Wake(w) \/ Publish(w) \/ Resume(w)
Spec == Init /\ [][Next]_vars

\* every upstream call returns, every sleep ends, and the Go scheduler keeps
\* running some goroutine that can take a step
FairSpec == InitFair /\ [][Next]_vars /\ WF_vars(Next)

NextFetch ==
    \/ Main
    \/ \E w \in 1..MaxWorkers :
          \/ TakeJob(w) \/ Exit(w) \/ Respond(w, Replies)
          \/ Wake(w) \/ Publish(w) \/ Resume(w)
SpecFetch == InitFetch /\ [][NextFetch]_vars

\* the upstream of the pool, with two found bodies that give different links
AggReplies == PoolReplies \cup {Reply(StatusOK, FALSE, FALSE, Array(<<HeaderRow, Data2>>))}
NextAgg ==
    \/ Main
    \/ \E w \in 1..MaxWorkers :
          \/ TakeJob(w) \/ Exit(w) \/ Respond(w, AggReplies)
          \/ Wake(w) \/ Publish(w) \/ Resume(w)
SpecAgg == InitAgg /\ [][NextAgg]_vars

DecodeReplies ==
    {Reply(StatusOK, FALSE, FALSE, b) : b \in Bodies}
    \cup {NilResp, Reply(404, FALSE, FALSE, Text("invalid")),
          Reply(StatusOK, TRUE, FALSE, Text("invalid"))}
NextDecode ==
    \/ Main
    \/ \E w \in 1..MaxWorkers :
          \/ TakeJob(w) \/ Exit(w) \/ Respond(w, DecodeReplies)
          \/ Wake(w) \/ Publish(w) \/ Resume(w)
SpecDecode == InitDecode /\ [][NextDecode]_vars

----------------------------------------------------------------------------
(* Properties *)

Count(seq, x) == Cardinality({i \in 1..Len(seq) : seq[i] = x})
UrlsOf(results) == [i \in 1..Len(results) |-> results[i].URL]
SameBag(s, t) == \A x \in URLs : Count(s, x) = Count(t, x)

\* every result sent on resultsChan so far, in the order sent
Published == observed \o resultsChan.buf
PoolCompleted == \A w \in Pool : workers[w].pc = "exited"

\* fetchURLData has returned in worker w and its result is about to be sent
Returned(w) == workers[w].pc = "publish"
\* every result fetchURLData has returned so far
AllReturned ==
    {workers[w].result : w \in {v \in Pool : Returned(v)}}
    \cup {Published[i] : i \in 1..Len(Published)}

\* C1: once every worker has returned, each submitted job was received from
\* the jobs channel exactly once, the URLs of the published results are the
\* submitted URLs as a multiset, and every status is found, not found or error.
C1_OneOutcomePerJob ==
    PoolCompleted =>
        /\ taken = flags.urlsToCheck
        /\ Len(Published) = Len(flags.urlsToCheck)
        /\ SameBag(UrlsOf(Published), flags.urlsToCheck)
        /\ \A i \in 1..Len(Published) :
              Published[i].Status \in {"found", "not found", "error"}

C1_Witness ==
    /\ PoolCompleted
    /\ flags.numWorkers = 2
    /\ flags.urlsToCheck = <<"a.com", "a.com">>
    /\ Len(Published) = 2
    /\ Published[1].Status = "error"
    /\ Published[2].Status = "found"

\* C2: when main's range over resultsChan has ended, main has received one
\* result per submitted job, none is left in the channel or in a worker, and
\* the URLs received are the submitted URLs as a multiset.
C2_AggregatorSeesAll ==
    mainPc = "done" =>
        /\ Len(observed) = Len(flags.urlsToCheck)
        /\ SameBag(UrlsOf(observed), flags.urlsToCheck)
        /\ resultsChan.buf = <<>>
        /\ PoolCompleted
        /\ ~panicked

C2_Witness ==
    /\ mainPc = "done"
    /\ flags.numWorkers = 2
    /\ flags.urlsToCheck = <<"a.com", "b.com">>
    /\ UrlsOf(observed) = <<"b.com", "a.com">>

\* C3: every result fetchURLData returns has Error set if and only if its
\* Status is error.
C3_ErrorIffStatusError ==
    \A r \in AllReturned : (r.Error # NoError) <=> (r.Status = "error")

C3_Witness ==
    \E w \in Pool :
        /\ Returned(w)
        /\ workers[w].result.Status = "error"
        /\ workers[w].result.Error.msg = "API request failed"

\* C4: every result fetchURLData returns has SnapshotCount > 0 exactly when it
\* is found and a non-empty OldestURL exactly when it is found; otherwise
\* SnapshotCount is 0 and OldestURL is empty.
C4_CountAndLinkIffFound ==
    \A r \in AllReturned :
        /\ (r.SnapshotCount > 0) <=> (r.Status = "found")
        /\ (r.OldestURL # "") <=> (r.Status = "found")
        /\ r.Status # "found" => r.SnapshotCount = 0 /\ r.OldestURL = ""

C4_Witness ==
    \E w \in Pool :
        /\ Returned(w)
        /\ workers[w].result.Status = "found"
        /\ workers[w].resp.body = Array(<<HeaderRow, Data1, ShortRow>>)
        /\ flags.latest

\* the replies the specification classifies as retryable: a transport
\* failure, HTTP 429, HTTP 5xx, HTTP 200 with the rate-limit message
ClaimRetryable(kind) == kind \in {"transport", "429", "5xx", "200 marker"}
AllRetryable(w) ==
    \A i \in 1..Len(workers[w].seen) : ClaimRetryable(workers[w].seen[i])

\* C5: with retryAttempts = r >= 0 a job never makes more than r+1 calls, and
\* a job all of whose replies were retryable has made exactly r+1 calls
\* when fetchURLData returns, with Status error.
C5_ExhaustionAfterRPlusOneCalls ==
    \A w \in Pool :
        flags.retryAttempts >= 0 =>
            /\ workers[w].calls <= flags.retryAttempts + 1
            /\ Returned(w) /\ AllRetryable(w) =>
                  /\ workers[w].calls = flags.retryAttempts + 1
                  /\ Len(workers[w].seen) = flags.retryAttempts + 1
                  /\ workers[w].result.Status = "error"

C5_Witness ==
    \E w \in Pool :
        /\ Returned(w)
        /\ flags.retryAttempts = 3
        /\ workers[w].seen = <<"transport", "429", "5xx", "200 marker">>
        /\ workers[w].calls = 4
        /\ workers[w].result.Status = "error"

\* C6: the k-th backoff sleep of a job, the one before attempt k, lasts
\* retryDelayMs * 2^(k-1), and there is one sleep before each attempt but
\* attempt 0, whatever made the attempt before it fail.
C6_BackoffDoubles ==
    \A w \in Pool :
        /\ Len(workers[w].sleeps) =
              IF workers[w].calls = 0 THEN 0 ELSE workers[w].calls - 1
        /\ \A k \in 1..Len(workers[w].sleeps) :
              workers[w].sleeps[k] = flags.retryDelayMs * 2^(k - 1)
        /\ workers[w].pc = "sleeping" =>
              workers[w].delay = flags.retryDelayMs * 2^(workers[w].attempt - 1)

C6_Witness ==
    \E w \in Pool :
        /\ workers[w].seen = <<"200 marker", "transport", "5xx">>
        /\ workers[w].sleeps = <<5000, 10000, 20000>>
        /\ workers[w].pc = "inflight"

\* the reply of call i ended the job at once
EndedAt(w, i) ==
    /\ i = Len(workers[w].seen)
    /\ workers[w].calls = i
    /\ Returned(w)

\* C7 as stated: a reply with a status that is not 200, 429 or 5xx, whatever
\* its body, and a 200 reply without the rate-limit message, end the job
\* without a further call; the former with Status error.
C7_AsStated ==
    \A w \in Pool : \A i \in 1..Len(workers[w].seen) :
        /\ workers[w].seen[i] \in {"other", "other marker", "200"} => EndedAt(w, i)
        /\ workers[w].seen[i] \in {"other", "other marker"} =>
              workers[w].result.Status = "error"

\* C7 amended: a reply with a status that is not 200, 429 or 5xx and without
\* the rate-limit message in its body, and a 200 reply without the message,
\* end the job without a further call; the former with Status error.
C7_NonRetryableIsTerminal ==
    \A w \in Pool : \A i \in 1..Len(workers[w].seen) :
        /\ workers[w].seen[i] \in {"other", "200"} => EndedAt(w, i)
        /\ workers[w].seen[i] = "other" => workers[w].result.Status = "error"

C7_Witness ==
    \E w \in Pool :
        /\ Returned(w)
        /\ workers[w].seen = <<"5xx", "other">>
        /\ workers[w].resp.StatusCode = 404
        /\ flags.retryAttempts = 3
        /\ workers[w].result.Status = "error"

\* C8: when the first k replies of a job were retryable and the next is a
\* 200 reply without the rate-limit message, k+1 calls were made and the
\* result is the one the body of that reply gives on a first attempt: no
\* error but a decoding error, and found with both rows counted for a
\* header and two data rows.
C8_RetryRecovers ==
    \A w \in Pool :
        LET me == workers[w]
            n == Len(me.seen)
        IN  (/\ Returned(w)
             /\ n > 0
             /\ me.seen[n] = "200"
             /\ \A i \in 1..(n - 1) : ClaimRetryable(me.seen[i]))
            => /\ me.calls = n
               /\ n <= flags.retryAttempts + 1
               /\ me.result = DecodeBody(me.targetURL, me.resp.body, flags.latest)
               /\ me.result.Error # NoError =>
                     me.result.Error.msg = "error decoding JSON response"
               /\ me.resp.body = FoundBody =>
                     /\ me.result.Status = "found"
                     /\ me.result.SnapshotCount = 2
                     /\ me.result.Error = NoError

C8_Witness ==
    \E w \in Pool :
        /\ Returned(w)
        /\ workers[w].seen = <<"5xx", "5xx", "200">>
        /\ workers[w].resp.body = FoundBody
        /\ workers[w].result.Status = "found"

\* the job of worker w ended with a 200 reply without the rate-limit
\* message, whose body is workers[w].resp.body
Decoded(w) ==
    /\ Returned(w)
    /\ workers[w].seen # <<>>
    /\ workers[w].seen[Len(workers[w].seen)] = "200"

\* a body the JSON decoder rejects, other than for being empty: text that is
\* not JSON, or JSON that is not an array of arrays
Malformed(body) ==
    \/ body.kind \in {"invalid", "scalar"}
    \/ /\ body.kind = "array"
       /\ \E i \in 1..Len(body.elems) : body.elems[i].t = "scalar"

\* C9: an empty body, or a body that decodes to zero rows, gives not found;
\* every other body the decoder rejects gives error with Error set.
C9_DecodeClassification ==
    \A w \in Pool :
        Decoded(w) =>
            LET body == workers[w].resp.body
                res == workers[w].result
            IN  /\ body \in {Text("empty"), Text("null"), Array(<<>>)} =>
                      res.Status = "not found"
                /\ Malformed(body) =>
                      res.Status = "error" /\ res.Error # NoError

\* the number of rows of a body that decodes without error
Rows(body) == IF body.kind = "array" THEN Len(body.elems) ELSE 0

\* C10: a body that decodes without error to R rows gives not found with
\* SnapshotCount 0 for R <= 1 and found with SnapshotCount R - 1 for R >= 2.
C10_RowInterpretation ==
    \A w \in Pool :
        Decoded(w) /\ workers[w].resp.body.kind \in {"null", "array"}
                   /\ ~Malformed(workers[w].resp.body) =>
            LET R == Rows(workers[w].resp.body)
                res == workers[w].result
            IN  /\ R <= 1 => res.Status = "not found" /\ res.SnapshotCount = 0
                /\ R >= 2 => res.Status = "found" /\ res.SnapshotCount = R - 1

C10_Witness ==
    \E w \in Pool :
        /\ Decoded(w)
        /\ workers[w].resp.body = Array(<<EmptyRow, NullElem, Data2>>)
        /\ workers[w].result.Status = "found"
        /\ workers[w].result.SnapshotCount = 2

\* the job of worker w ended with a 200 reply whose body decodes without
\* error to a header row and at least one data row
HasSnapshots(w) ==
    /\ Decoded(w)
    /\ workers[w].resp.body.kind = "array"
    /\ ~Malformed(workers[w].resp.body)
    /\ Len(workers[w].resp.body.elems) >= 2

\* the data row the mode selects: the first after the header, or the last
SelectedRow(w) ==
    LET elems == workers[w].resp.body.elems
    IN  IF flags.latest THEN elems[Len(elems)] ELSE elems[2]

\* a row with a string timestamp at position 1 and a string original at 2
WellFormed(elem) ==
    /\ elem.t = "row"
    /\ Len(elem.f) >= 3
    /\ elem.f[2].isStr
    /\ elem.f[3].isStr

ArchiveLink(elem) == "http://web.archive.org/web/" \o elem.f[2].v \o "/" \o elem.f[3].v

\* C11: a found result is built from the first data row in mode oldest and
\* from the last data row in mode latest; for a well-formed row OldestURL is
\* "http://web.archive.org/web/" + timestamp + "/" + original of that row.
\* With a single data row both modes select it.
C11_SnapshotSelection ==
    \A w \in Pool :
        HasSnapshots(w) =>
            /\ workers[w].result.Status = "found"
            /\ WellFormed(SelectedRow(w)) =>
                  workers[w].result.OldestURL = ArchiveLink(SelectedRow(w))
            /\ Len(workers[w].resp.body.elems) = 2
                  /\ WellFormed(workers[w].resp.body.elems[2]) =>
                  workers[w].result.OldestURL =
                      ArchiveLink(workers[w].resp.body.elems[2])

C11_Witness ==
    \E w \in Pool :
        /\ HasSnapshots(w)
        /\ flags.latest
        /\ workers[w].resp.body = Array(<<HeaderRow, Data1, Data2>>)
        /\ workers[w].result.OldestURL = "http://web.archive.org/web/2002/http://a.com/x"

\* C19: when the selected row has fewer than 3 fields, or its timestamp or
\* original is not a string, the result keeps Status "found" and
\* SnapshotCount N, carries no Error, and OldestURL is one of the two fixed
\* sentinel strings; the result depends on the selected row and N alone, so
\* such anomalies in the other rows change nothing.
C19_EntryShapeAnomaly ==
    \A w \in Pool :
        HasSnapshots(w) =>
            LET row == SelectedRow(w)
                n == Len(workers[w].resp.body.elems) - 1
                res == workers[w].result
            IN  /\ res.Status = "found"
                /\ res.SnapshotCount = n
                /\ res.Error = NoError
                /\ res.URL = workers[w].targetURL
                /\ ~WellFormed(row) =>
                      res.OldestURL \in
                          {"could not determine (error parsing snapshot data)",
                           "could not determine (not enough fields in snapshot data)"}
                /\ Len(row.f) < 3 =>
                      res.OldestURL = "could not determine (not enough fields in snapshot data)"
                /\ Len(row.f) >= 3 /\ ~WellFormed(row) =>
                      res.OldestURL = "could not determine (error parsing snapshot data)"
                /\ WellFormed(row) => res.OldestURL = ArchiveLink(row)

C19_Witness ==
    \E w \in Pool :
        /\ HasSnapshots(w)
        /\ flags.latest
        /\ workers[w].resp.body = Array(<<HeaderRow, Data1, NumOrigRow>>)
        /\ workers[w].result.Status = "found"
        /\ workers[w].result.SnapshotCount = 2
        /\ workers[w].result.OldestURL = "could not determine (error parsing snapshot data)"

\* workers at "results <- ...": fetchURLData has returned, the send has not
AtPublish == {w \in Pool : workers[w].pc = "publish"}

\* calls of fetchURLData started and not yet returned
ActiveFetches == Len(taken) - Len(Published) - Cardinality(AtPublish)

\* requests of the current job of worker w issued and not yet answered
RequestsInFlight(w) == workers[w].calls - Len(workers[w].seen)

RECURSIVE SumInFlight(_)
SumInFlight(n) == IF n = 0 THEN 0 ELSE RequestsInFlight(n) + SumInFlight(n - 1)

\* C12: with N workers, at every moment at most N calls of fetchURLData are
\* active (started and not returned), hence at most N upstream requests are
\* in flight, and no job has more than one request in flight.
C12_AtMostNActive ==
    /\ ActiveFetches >= 0
    /\ ActiveFetches <= flags.numWorkers
    /\ SumInFlight(flags.numWorkers) <= ActiveFetches
    /\ \A w \in Pool : RequestsInFlight(w) \in {0, 1}

C12_Witness ==
    /\ flags.numWorkers = 2
    /\ ActiveFetches = 2
    /\ SumInFlight(2) = 1
    /\ \E w \in Pool : workers[w].pc = "sleeping"

\* resultsChan is closed only when every worker has returned
ClosedAfterWorkers ==
    /\ resultsChan.closed =>
          /\ \A w \in Pool : workers[w].pc = "exited"
          /\ wg = 0
          /\ jobs.closed /\ jobs.buf = <<>>
          /\ Len(Published) = Len(flags.urlsToCheck)
    /\ ~panicked
    /\ resultsChan.closed <=> closerPc = "done"

\* the channel stays closed, nothing is sent on it once closed, and the
\* close is a step of the closer goroutine
ClosedOnce ==
    /\ resultsChan.closed => resultsChan'.closed
    /\ resultsChan.closed => Published' = Published
    /\ resultsChan'.closed # resultsChan.closed => closerPc = "wait" /\ closerPc' = "done"

\* C17: resultsChan is closed only after every worker has found the jobs
\* channel closed and drained and has returned; no result is sent on the
\* channel after it has been closed (no send panics), and the channel is
\* closed exactly once.
C17_CloseAfterAllWorkers == []ClosedAfterWorkers /\ [][ClosedOnce]_vars

C17_Witness ==
    /\ resultsChan.closed
    /\ flags.numWorkers = 2
    /\ Len(flags.urlsToCheck) = 2
    /\ resultsChan.buf # <<>>
    /\ mainPc = "range"

\* the order of send, pause and next receive in the loop of worker w
PauseOrder(w) ==
    \* the send completes before the pause, and the pause follows iff D > 0
    /\ workers[w].pc = "publish" /\ workers'[w].pc # "publish" =>
          /\ Published' = Append(Published, workers[w].result)
          /\ workers'[w].pc = IF flags.delayMs > 0 THEN "pause" ELSE "idle"
    \* a pause starts only right after a send of this worker
    /\ workers'[w].pc = "pause" /\ workers[w].pc # "pause" =>
          workers[w].pc = "publish" /\ flags.delayMs > 0
    \* the pause ends before the worker receives its next job
    /\ workers[w].pc = "pause" => workers'[w].pc \in {"pause", "idle"}
    \* a job is received only by a worker that is not pausing
    /\ workers'[w].targetURL # "" /\ workers[w].targetURL = "" =>
          workers[w].pc = "idle" /\ Len(taken') = Len(taken) + 1
    /\ flags.delayMs = 0 => workers'[w].pc # "pause"

\* the pause of one worker leaves the receive of every other worker enabled
PauseIsLocal ==
    \A w, v \in Pool :
        workers[w].pc = "pause" /\ workers[v].pc = "idle" /\ jobs.buf # <<>> =>
            ENABLED TakeJob(v)

\* C20: for each job the result is sent before the pause; with D > 0 the
\* worker pauses after the send and before receiving its next job, with
\* D = 0 it goes straight to the next receive; the pause of one worker
\* does not keep another worker from receiving jobs.
C20_PauseAfterPublish == []PauseIsLocal /\ [][\A w \in Pool : PauseOrder(w)]_vars

C20_Witness ==
    /\ flags.delayMs > 0
    /\ flags.numWorkers = 2
    /\ workers[1].pc = "pause"
    /\ workers[2].pc = "idle"
    /\ Len(Published) = 1
    /\ jobs.buf # <<>>
    /\ ENABLED TakeJob(2)

\* the results the output filter lets through
Shown(result) == ~flags.noErr \/ result.Status = "found"

MarkOf(result) ==
    CASE result.Status = "found" -> "[+]"
      [] result.Status = "not found" -> "[-]"
      [] OTHER -> "[!]"

\* C13: with -no-err no not-found and no error result is printed while every
\* found result is; without it every consumed result is printed exactly
\* once, so that at the end the number of lines is the number of jobs.
C13_OutputFilter ==
    LET shown == SelectSeq(observed, Shown)
    IN  /\ Len(stdout) = Len(shown)
        /\ \A i \in 1..Len(shown) :
              /\ stdout[i].URL = shown[i].URL
              /\ stdout[i].mark = MarkOf(shown[i])
        /\ flags.noErr => \A i \in 1..Len(stdout) : stdout[i].mark = "[+]"
        /\ ~flags.noErr =>
              /\ Len(stdout) = Len(observed)
              /\ mainPc \in {"done", "fatal"} => Len(stdout) = Len(flags.urlsToCheck)

C13_Witness ==
    /\ flags.noErr
    /\ mainPc = "done"
    /\ Len(observed) = 2
    /\ observed[1].Status = "error"
    /\ observed[2].Status = "found"
    /\ Len(stdout) = 1
    /\ stdout[1].URL = "b.com"

IsFound(result) == result.Error = NoError /\ result.Status = "found"

\* the OldestURL of the found results consumed so far, in consumption order
FoundLinks ==
    LET found == SelectSeq(observed, IsFound)
    IN  [i \in 1..Len(found) |-> found[i].OldestURL]

\* C14: the slice handed to writeUrlsToFile holds one entry per found result
\* consumed, its OldestURL, in consumption order, and nothing for not-found
\* or error results, with -no-err set or not.
C14_AccumulatedLinks ==
    /\ foundSnapshotURLs = FoundLinks
    /\ \A k \in 1..Len(fileWrites) : fileWrites[k] = FoundLinks
    /\ Len(foundSnapshotURLs) <= Len(observed)

C14_Witness ==
    /\ flags.noErr
    /\ Len(observed) = 2
    /\ observed[1].Status = "not found"
    /\ observed[2].Status = "found"
    /\ fileWrites = <<(<<"http://web.archive.org/web/2002/http://a.com/x">>)>>

\* writeUrlsToFile has been called at most once, and then the pool was complete
WrittenAfterCompletion ==
    /\ Len(fileWrites) <= 1
    /\ fileWrites # <<>> =>
          /\ resultsChan.closed
          /\ resultsChan.buf = <<>>
          /\ Len(observed) = Len(flags.urlsToCheck)
          /\ \A w \in Pool : workers[w].pc = "exited"
          /\ mainPc \in {"done", "fatal"}

\* the call is the step that ends the range over resultsChan
WrittenAtEnd ==
    fileWrites' # fileWrites =>
        /\ mainPc = "range" /\ mainPc' # "range"
        /\ fileWrites = <<>>
        /\ resultsChan.closed /\ resultsChan.buf = <<>>

\* C15: writeUrlsToFile is called at most once per run, and only after the
\* range over resultsChan has ended, that is after the channel was closed and
\* every result consumed; it is never called while a worker is running.
C15_WriteOnceAfterCompletion == []WrittenAfterCompletion /\ [][WrittenAtEnd]_vars

C15_Witness ==
    /\ Len(fileWrites) = 1
    /\ flags.numWorkers = 2
    /\ Len(observed) = 2
    /\ mainPc = "done"

\* every job has its result sent, resultsChan is closed, the range has ended
AllDone ==
    /\ Len(Published) = Len(flags.urlsToCheck)
    /\ resultsChan.closed
    /\ mainPc = "done"

\* C16: with N >= 1 workers, a finite retry budget and a finite job list,
\* when every upstream call returns and every sleep ends, under fair
\* scheduling every job eventually gets its result sent, resultsChan is
\* eventually closed and the range over it eventually ends; no state before
\* that is a deadlock.
C16_Termination == [](~AllDone => ENABLED Next) /\ <>[]AllDone

C16_Witness ==
    /\ AllDone
    /\ flags.numWorkers = 2
    /\ Len(observed) = 2
    /\ observed[1].Status = "error"
    /\ observed[1].URL = "b.com"

\* the result a worker is about to send is a function of its job's URL, the
\* mode and the last reply to its own requests
OwnOutcome ==
    \A w \in Pool :
        workers[w].pc = "publish" =>
            /\ workers[w].result.URL = workers[w].targetURL
            /\ IF workers[w].resp = NilResp
               THEN /\ workers[w].result.Status = "error"
                    /\ workers[w].result.Error # NoError
                    /\ Len(workers[w].seen) = flags.retryAttempts + 1
               ELSE workers[w].result =
                        DecodeBody(workers[w].targetURL, workers[w].resp.body,
                                   flags.latest)

\* the send of a result with an error changes nothing but the channel and
\* the sending worker, which goes on to the pause or the next receive; a
\* worker returns only from the closed and drained jobs channel
ErrorContained ==
    \A w \in Pool :
        /\ /\ workers[w].pc = "publish"
           /\ workers'[w].pc # "publish"
           /\ workers[w].result.Status = "error"
           => /\ workers'[w].pc \in {"pause", "idle"}
              /\ wg' = wg
              /\ jobs' = jobs
              /\ ~panicked'
              /\ \A v \in Pool \ {w} : workers'[v] = workers[v]
        /\ workers'[w].pc = "exited" /\ workers[w].pc # "exited" =>
              /\ workers[w].pc = "idle"
              /\ jobs.closed /\ jobs.buf = <<>>

ErrorPublished == \E i \in 1..Len(Published) : Published[i].Status = "error"

\* C18: a result with an error never stops the pool: the worker that sent it
\* goes on to receive the next job, every job still in the jobs channel is
\* eventually processed, and the result of a job is determined by its own
\* URL, the mode and the replies to its own requests only.
C18_FailureIsolation ==
    /\ []OwnOutcome
    /\ [][ErrorContained]_vars
    /\ ErrorPublished ~> AllDone

C18_Witness ==
    /\ flags.numWorkers = 1
    /\ Len(Published) = 1
    /\ Published[1].Status = "error"
    /\ Len(taken) = 2
    /\ workers[1].pc = "inflight"

\* the job of worker w has ended after retryable replies only
Exhausted(w) ==
    /\ Returned(w)
    /\ flags.retryAttempts >= 0
    /\ workers[w].seen # <<>>
    /\ AllRetryable(w)

\* the cause by the classes of replies: a transport failure; rate limiting
\* for 429 or a 200 reply with the rate-limit message; server error for 5xx
CauseByClass(reply) ==
    IF reply.nil THEN "network"
    ELSE IF reply.StatusCode = 429 \/ (reply.StatusCode = 200 /\ reply.marker)
         THEN "rate limiting"
         ELSE "server error"

\* the same, with the rate-limit message counted whatever the status
CauseByMessage(reply) ==
    IF reply.nil THEN "network"
    ELSE IF reply.StatusCode = 429 \/ reply.marker
         THEN "rate limiting"
         ELSE "server error"

\* C21 as stated: when the retries are exhausted the error names the cause
\* of the final attempt by its class (transport failure, rate limiting for
\* 429 or a 200 reply with the message, server error for 5xx) and carries
\* the retry count r.
C21_AsStated ==
    \A w \in Pool :
        Exhausted(w) =>
            /\ workers[w].result.Status = "error"
            /\ workers[w].result.Error.cause = CauseByClass(workers[w].resp)
            /\ workers[w].result.Error.retries = flags.retryAttempts

\* C21 amended: when the retries are exhausted the error names the cause of
\* the final attempt, not of an earlier one, and carries the retry count r;
\* a final reply whose body holds the rate-limit message is named rate
\* limiting whatever its status, a 5xx status included.
C21_LastCauseReported ==
    \A w \in Pool :
        Exhausted(w) =>
            /\ workers[w].result.Status = "error"
            /\ workers[w].result.Error.cause = CauseByMessage(workers[w].resp)
            /\ workers[w].result.Error.retries = flags.retryAttempts
            /\ Len(workers[w].seen) = flags.retryAttempts + 1

C21_Witness ==
    \E w \in Pool :
        /\ Exhausted(w)
        /\ flags.retryAttempts = 3
        /\ workers[w].seen = <<"429", "transport", "200 marker", "5xx">>
        /\ ~workers[w].resp.marker
        /\ workers[w].result.Error.cause = "server error"
        /\ workers[w].result.Error.retries = 3

\* C22: both channels have capacity M = len(urlsToCheck), so main never
\* blocks while it sends the jobs and no worker blocks when it sends a
\* result; in every state each channel buffers at most M values, also when
\* nothing has been consumed yet.
C22_ChannelsNeverBlock ==
    LET M == Len(flags.urlsToCheck)
    IN  /\ Len(jobs.buf) <= M
        /\ Len(resultsChan.buf) <= M
        /\ mainPc = "send" /\ sent < M => ENABLED SendJob
        /\ \A w \in Pool : workers[w].pc = "publish" =>
              /\ ENABLED Publish(w)
              /\ ~resultsChan.closed
              /\ Len(resultsChan.buf) < M

C22_Witness ==
    /\ Len(flags.urlsToCheck) = 2
    /\ Len(resultsChan.buf) = 1
    /\ observed = <<>>
    /\ mainPc = "range"
    /\ \E w \in Pool : workers[w].pc = "publish" /\ ENABLED Publish(w)

\* C23: a failure to read the body of a response ends the job: fetchURLData
\* returns Status error at once, with the read error, and makes no further
\* call, also when attempts remain and the status was 429 or 5xx.
C23_ReadFailureIsTerminal ==
    \A w \in Pool : \A i \in 1..Len(workers[w].seen) :
        workers[w].seen[i] = "read failure" =>
            /\ EndedAt(w, i)
            /\ workers[w].result.Status = "error"
            /\ workers[w].result.Error.msg = "error reading response body"
            /\ workers[w].resp.readErr

C23_Witness ==
    \E w \in Pool :
        /\ Returned(w)
        /\ flags.retryAttempts = 3
        /\ workers[w].seen = <<"5xx", "read failure">>
        /\ workers[w].resp.StatusCode = 429
        /\ workers[w].calls = 2
        /\ workers[w].result.Status = "error"

RECURSIVE SumOf(_)
SumOf(s) == IF s = <<>> THEN 0 ELSE Head(s) + SumOf(Tail(s))

\* a sleep is always followed by a call, and a returned job has slept once
\* before each call but the first
SleepsBeforeCalls ==
    \A w \in Pool :
        /\ workers[w].pc = "sleeping" =>
              /\ workers[w].attempt <= flags.retryAttempts
              /\ workers[w].attempt = workers[w].calls
              /\ Len(workers[w].sleeps) = workers[w].calls - 1
        /\ Returned(w) /\ workers[w].calls >= 1 =>
              Len(workers[w].sleeps) = workers[w].calls - 1
        /\ Returned(w) /\ workers[w].calls = 0 => workers[w].sleeps = <<>>
        /\ Exhausted(w) =>
              /\ Len(workers[w].sleeps) = flags.retryAttempts
              /\ SumOf(workers[w].sleeps) =
                    flags.retryDelayMs * (2^flags.retryAttempts - 1)

\* no sleep between the last reply and the return of fetchURLData, and the
\* sleep that ends is followed at once by the request of its attempt
NoSleepAfterLastCall ==
    \A w \in Pool :
        /\ workers[w].pc = "inflight" /\ workers'[w].pc = "publish" =>
              workers'[w].sleeps = workers[w].sleeps
        /\ workers[w].pc = "sleeping" => workers'[w].pc \in {"sleeping", "inflight"}
        /\ workers[w].pc = "sleeping" /\ workers'[w].pc = "inflight" =>
              /\ workers'[w].calls = workers[w].calls + 1
              /\ Len(workers'[w].sleeps) = Len(workers[w].sleeps) + 1

\* C24: within one job the number of backoff sleeps is the number of calls
\* minus one; no sleep follows the final attempt or comes between a terminal
\* reply and the return, so a job that exhausts r retries sleeps exactly r
\* times, for retryDelayMs * (2^r - 1) in total.
C24_SleepsAreCallsMinusOne == []SleepsBeforeCalls /\ [][NoSleepAfterLastCall]_vars

C24_Witness ==
    \E w \in Pool :
        /\ Exhausted(w)
        /\ flags.retryAttempts = 3
        /\ workers[w].calls = 4
        /\ workers[w].sleeps = <<5000, 10000, 20000>>
        /\ SumOf(workers[w].sleeps) = 35000

\* the i-th result sent is the result of the i-th job submitted
InSubmissionOrder ==
    \A i \in 1..Len(Published) : Published[i].URL = flags.urlsToCheck[i]

\* C25: with one worker the results are sent and consumed in submission
\* order: the i-th result main observes has the URL of the i-th job. With
\* two or more workers the results need not come in that order (the witness
\* is such a run).
C25_OrderWithOneWorker ==
    flags.numWorkers = 1 =>
        /\ InSubmissionOrder
        /\ \A i \in 1..Len(observed) : observed[i].URL = flags.urlsToCheck[i]

C25_Witness ==
    /\ flags.numWorkers >= 2
    /\ flags.urlsToCheck = <<"a.com", "b.com">>
    /\ Len(observed) = 2
    /\ observed[1].URL = "b.com"
    /\ observed[2].URL = "a.com"
    /\ ~InSubmissionOrder

\* one worker, both results observed in submission order
C25_OneWorkerInOrder ==
    /\ flags.numWorkers = 1
    /\ flags.urlsToCheck = <<"a.com", "b.com">>
    /\ Len(observed) = 2
    /\ observed[1].URL = "a.com"
    /\ observed[2].URL = "b.com"

FoundConsumed == \E i \in 1..Len(observed) : IsFound(observed[i])

\* C26: writeUrlsToFile is not called when no found result was consumed,
\* also with -o set, and not called without -o; when main ends with -o set
\* and at least one found result consumed it has been called exactly once.
C26_WriteIffFoundAndDestination ==
    /\ ~FoundConsumed => fileWrites = <<>>
    /\ flags.outputFile = "" => fileWrites = <<>>
    /\ mainPc = "range" => fileWrites = <<>>
    /\ mainPc \in {"done", "fatal"} =>
          Len(fileWrites) = IF flags.outputFile # "" /\ FoundConsumed THEN 1 ELSE 0
    /\ mainPc = "fatal" => Len(fileWrites) = 1

C26_Witness ==
    /\ flags.outputFile = "found.txt"
    /\ mainPc = "done"
    /\ Len(observed) = 2
    /\ observed[1].Status = "not found"
    /\ observed[2].Status = "error"
    /\ fileWrites = <<>>

\* -o set and a found result consumed: one call
C26_WrittenOnce ==
    /\ flags.outputFile = "found.txt"
    /\ mainPc = "done"
    /\ FoundConsumed
    /\ Len(fileWrites) = 1

\* the result was made by the branch "resp == nil" after the loop
NoResponseBranch(result) ==
    /\ result.Error # NoError
    /\ result.Error.msg = "failed to get a response after all retries"

====
